---- MODULE Spec2Model ----
(***************************************************************************)
(* HMatrix<ValueType, N> of lib/hmat/hmatrix_impl.hpp: the container that  *)
(* maps the leaves of a shared block cluster tree to their block data, the *)
(* permutation between original and hierarchical DOF ordering, and apply.  *)
(*                                                                         *)
(* Indices are 0-based as in the source.  A matrix is a record             *)
(* [rows, cols, at] with at a function on (0..rows-1) \X (0..cols-1).      *)
(* An IndexRangeType is the pair <<indexRange[0], indexRange[1]>>, so      *)
(* range[1] below is the source's indexRange[0] and range[2] its           *)
(* indexRange[1].                                                          *)
(***************************************************************************)
EXTENDS Integers, Sequences, FiniteSets, TLC

\* Entries of the caller's matrices range over 0..MaxVal (and NaN).
MaxVal == 1
\* Number of right-hand-side columns of X and Y ranges over 1..MaxCols.
MaxCols == 2

(***************************************************************************)
(* Scalars.  ValueType is a floating-point type; the model computes with   *)
(* integers plus one non-finite value NaN that every product and sum       *)
(* propagates (0 * NaN = NaN), which is what makes "zero it" differ from   *)
(* "scale it by 0".                                                        *)
(***************************************************************************)
NaN == -99999

Mul(a, b) == IF a = NaN \/ b = NaN THEN NaN ELSE a * b

Add(a, b) == IF a = NaN \/ b = NaN THEN NaN ELSE a + b

RECURSIVE SumTo(_, _)
\* f[0] + ... + f[n-1]
SumTo(f, n) == IF n = 0 THEN 0 ELSE Add(SumTo(f, n - 1), f[n - 1])

(***************************************************************************)
(* Dense matrices (Matrix<ValueType>).                                     *)
(***************************************************************************)
Idx(n, k) == (0 .. n - 1) \X (0 .. k - 1)

MakeMatrix(n, k, at) == [rows |-> n, cols |-> k, at |-> at]

Zeros(n, k) == MakeMatrix(n, k, [<<i, j>> \in Idx(n, k) |-> 0])

\* The value of an expression that did not return (an exception was thrown).
NoMatrix == Zeros(0, 0)

TransposeMode == {"NOTRANS", "TRANS"}

RowColSelector == {"ROW", "COL"}

(***************************************************************************)
(* Cluster tree: numberOfDofs() and the two index maps.  o2h is the        *)
(* original -> hierarchical permutation the tree was built with.           *)
(***************************************************************************)
ClusterTree(perm) ==
  [numberOfDofs |-> Len(perm), o2h |-> [i \in 0 .. Len(perm) - 1 |-> perm[i + 1]]]

mapOriginalDofToHMatDof(clusterTree, i) == clusterTree.o2h[i]

mapHMatDofToOriginalDof(clusterTree, j) ==
  CHOOSE i \in 0 .. clusterTree.numberOfDofs - 1 : clusterTree.o2h[i] = j

(***************************************************************************)
(* Block cluster trees.  A leaf carries the index ranges of its row and    *)
(* column cluster tree nodes; leafNodes is the order leafNodes() returns.  *)
(***************************************************************************)
Leaf(r0, r1, c0, c1) == [rowRange |-> <<r0, r1>>, colRange |-> <<c0, c1>>]

\* 4 x 4, a 2 x 2 leaf partition, row and column permutations differ.
Tree2x2 ==
  [rowClusterTree |-> ClusterTree(<<2, 0, 3, 1>>),
   columnClusterTree |-> ClusterTree(<<1, 0, 2, 3>>),
   leafNodes |-> <<Leaf(0, 2, 0, 2), Leaf(0, 2, 2, 4),
                   Leaf(2, 4, 0, 2), Leaf(2, 4, 2, 4)>>]

\* 3 x 2 (non-square), three leaves.
Tree3x2 ==
  [rowClusterTree |-> ClusterTree(<<1, 2, 0>>),
   columnClusterTree |-> ClusterTree(<<1, 0>>),
   leafNodes |-> <<Leaf(0, 1, 0, 2), Leaf(1, 3, 0, 1), Leaf(1, 3, 1, 2)>>]

\* 3 x 3, the root is the only leaf, both sides use the same 3-cycle.
TreeRoot ==
  [rowClusterTree |-> ClusterTree(<<1, 2, 0>>),
   columnClusterTree |-> ClusterTree(<<1, 2, 0>>),
   leafNodes |-> <<Leaf(0, 3, 0, 3)>>]

\* 2 x 2, two leaves stacked by rows, identity permutations.
TreeRows ==
  [rowClusterTree |-> ClusterTree(<<0, 1>>),
   columnClusterTree |-> ClusterTree(<<0, 1>>),
   leafNodes |-> <<Leaf(0, 1, 0, 2), Leaf(1, 2, 0, 2)>>]

Trees == {Tree2x2, Tree3x2, TreeRoot, TreeRows}

LeafIds(bct) == 1 .. Len(bct.leafNodes)

VARIABLES
  tree,         \* m_blockClusterTree: the shared block cluster tree
  hMatrixData,  \* m_hMatrixData: leaf id -> block data
  call,         \* the most recent call on the matrix: arguments and outcome
  space         \* the PiecewiseConstantScalarSpace, if one was constructed

vars == <<tree, hMatrixData, call, space>>

\* No space was constructed.
NoSpace == [constructed |-> FALSE]

(***************************************************************************)
(* HMatrix::rows, HMatrix::columns                                         *)
(***************************************************************************)
rows(bct) == bct.rowClusterTree.numberOfDofs

columns(bct) == bct.columnClusterTree.numberOfDofs

SelectedClusterTree(bct, rowOrColumn) ==
  IF rowOrColumn = "ROW" THEN bct.rowClusterTree ELSE bct.columnClusterTree

(***************************************************************************)
(* The row-copy loops of the two permute functions.  The destination is    *)
(* created uninitialised with the shape of mat; row dest(i) receives row i *)
(* of mat for i = 0, 1, ... in turn, so a row written twice keeps the last *)
(* write and a row never written keeps an indeterminate value.             *)
(***************************************************************************)
Largest(S) == CHOOSE x \in S : \A y \in S : y <= x

CopyRows(mat, dest) ==
  MakeMatrix(mat.rows, mat.cols,
             [<<r, j>> \in Idx(mat.rows, mat.cols) |->
                LET from == {i \in 0 .. mat.rows - 1 : dest[i] = r}
                IN  IF from = {} THEN NaN ELSE mat.at[<<Largest(from), j>>]])

\* How many times the loop writes destination row r.
RowWrites(mat, dest, r) == Cardinality({i \in 0 .. mat.rows - 1 : dest[i] = r})

\* The destination row of each source row i of mat under the two maps.
ToHMat(clusterTree, mat) ==
  [i \in 0 .. mat.rows - 1 |-> mapOriginalDofToHMatDof(clusterTree, i)]

ToOriginal(clusterTree, mat) ==
  [i \in 0 .. mat.rows - 1 |-> mapHMatDofToOriginalDof(clusterTree, i)]

\* Mutant: the row-count test only rejects matrices with too many rows.
permuteMatToHMatDofs_LooseCheck(bct, mat, rowOrColumn) ==
  LET clusterTree == SelectedClusterTree(bct, rowOrColumn)
  IN  IF clusterTree.numberOfDofs < mat.rows
      THEN [err |-> "shape", m |-> NoMatrix]
      ELSE [err |-> "none",
            m |-> CopyRows(mat, ToHMat(clusterTree, mat))]

permuteMatToHMatDofs(bct, mat, rowOrColumn) ==
  LET clusterTree == SelectedClusterTree(bct, rowOrColumn)
  IN  IF clusterTree.numberOfDofs # mat.rows
      THEN [err |-> "shape", m |-> NoMatrix]
      ELSE [err |-> "none",
            m |-> CopyRows(mat, ToHMat(clusterTree, mat))]

\* Mutant: the inverse permutation uses the forward map again.
permuteMatToOriginalDofs_ForwardMap(bct, mat, rowOrColumn) ==
  LET clusterTree == SelectedClusterTree(bct, rowOrColumn)
  IN  IF clusterTree.numberOfDofs # mat.rows
      THEN [err |-> "shape", m |-> NoMatrix]
      ELSE [err |-> "none",
            m |-> CopyRows(mat, ToHMat(clusterTree, mat))]

permuteMatToOriginalDofs(bct, mat, rowOrColumn) ==
  LET clusterTree == SelectedClusterTree(bct, rowOrColumn)
  IN  IF clusterTree.numberOfDofs # mat.rows
      THEN [err |-> "shape", m |-> NoMatrix]
      ELSE [err |-> "none",
            m |-> CopyRows(mat, ToOriginal(clusterTree, mat))]

(***************************************************************************)
(* The operators the compressors approximate, and the compressor.  A dense *)
(* compressor copies the true entries of the leaf's block, which it gets   *)
(* from the kernel evaluation by original indices.  A compressor may fail  *)
(* (throw) on one leaf: failAt = k makes the k-th compressBlock call of a  *)
(* run throw, failAt = 0 never throws.                                     *)
(***************************************************************************)
Operators == {1, 2}

OperatorEntry(A, i, j) ==
  IF A = 1 THEN 10 * (i + 1) + (j + 1) ELSE IF i = j THEN 3 ELSE i + 1

DenseOperator(bct, A) ==
  MakeMatrix(rows(bct), columns(bct),
             [<<i, j>> \in Idx(rows(bct), columns(bct)) |-> OperatorEntry(A, i, j)])

Compressors(bct) == [A : Operators, failAt : 0 .. Len(bct.leafNodes)]

compressBlock(bct, leafId, compressor) ==
  LET node == bct.leafNodes[leafId]
      r0 == node.rowRange[1]
      c0 == node.colRange[1]
      nr == node.rowRange[2] - r0
      nc == node.colRange[2] - c0
  IN  [src |-> compressor.A,
       dense |->
         MakeMatrix(nr, nc,
                    [<<r, c>> \in Idx(nr, nc) |->
                       OperatorEntry(compressor.A,
                         mapHMatDofToOriginalDof(bct.rowClusterTree, r0 + r),
                         mapHMatDofToOriginalDof(bct.columnClusterTree, c0 + c))])]

(***************************************************************************)
(* HMatrix::reset, HMatrix::isInitialized, HMatrix::initialize             *)
(***************************************************************************)
EmptyData == << >>

\* Mutant: reset leaves the mapping as it is.
reset_Keep(data) == data

reset(data) == EmptyData

isInitialized(data) == DOMAIN data # {}

\* m_hMatrixData[node] = nodeData
Store(data, leafId, nodeData) ==
  [k \in DOMAIN data \cup {leafId} |-> IF k = leafId THEN nodeData ELSE data[k]]

RECURSIVE CompressLeaves(_, _, _, _)
\* The loop of initialize from the k-th leaf on; a throwing compressBlock
\* leaves the loop with what was stored so far.
CompressLeaves(bct, compressor, k, data) ==
  IF k > Len(bct.leafNodes) THEN [err |-> "none", data |-> data]
  ELSE IF compressor.failAt = k THEN [err |-> "compress", data |-> data]
  ELSE CompressLeaves(bct, compressor, k + 1,
                      Store(data, k, compressBlock(bct, k, compressor)))

\* Mutant: the loop starts at the second leaf.
initialize_SkipFirst(bct, data, compressor) ==
  CompressLeaves(bct, compressor, 2, reset(data))

initialize(bct, data, compressor) ==
  CompressLeaves(bct, compressor, 1, reset(data))

(***************************************************************************)
(* Block data apply: yBlock := alpha * op(block) * xBlock + beta * yBlock. *)
(* beta = 0 does not read yBlock, alpha = 0 does not read xBlock.          *)
(***************************************************************************)
HMatrixDataApply(blockData, xBlock, yBlock, trans, alpha, beta) ==
  LET B == blockData.dense
      inner == IF trans = "NOTRANS" THEN B.cols ELSE B.rows
      opB(i, l) == IF trans = "NOTRANS" THEN B.at[<<i, l>>] ELSE B.at[<<l, i>>]
  IN  MakeMatrix(yBlock.rows, yBlock.cols,
                 [<<i, j>> \in Idx(yBlock.rows, yBlock.cols) |->
                    Add(IF alpha = 0 THEN 0
                        ELSE Mul(alpha,
                                 SumTo([l \in 0 .. inner - 1 |->
                                          Mul(opB(i, l), xBlock.at[<<l, j>>])],
                                       inner)),
                        IF beta = 0 THEN 0 ELSE Mul(beta, yBlock.at[<<i, j>>]))])

(***************************************************************************)
(* Eigen::Map<Matrix>(data.block(start, 0, n, data.cols()).data(), n,      *)
(* data.cols()): block(...).data() is the address of element (start, 0)    *)
(* of the column-major parent, and the Map views the n * cols scalars that *)
(* follow it contiguously as an n x cols column-major matrix.  Element     *)
(* (i, j) of the view is the scalar at linear offset start + i + j * n of  *)
(* the parent, i.e. its element MapIndex.                                  *)
(***************************************************************************)
MapIndex(parentRows, start, n, i, j) ==
  LET L == start + i + j * n IN <<L % parentRows, L \div parentRows>>

\* The view read as a matrix.
MapView(data, start, n) ==
  MakeMatrix(n, data.cols,
             [<<i, j>> \in Idx(n, data.cols) |->
                data.at[MapIndex(data.rows, start, n, i, j)]])

\* The parent after blk was written through the view.
MapStore(data, start, n, blk) ==
  MakeMatrix(data.rows, data.cols,
             [<<r, c>> \in Idx(data.rows, data.cols) |->
                LET off == r + c * data.rows - start
                IN  IF n > 0 /\ off >= 0 /\ off < n * data.cols
                    THEN blk.at[<<off % n, off \div n>>]
                    ELSE data.at[<<r, c>>]])

(***************************************************************************)
(* HMatrix::apply                                                          *)
(***************************************************************************)
\* Mutant: beta = 0 skips the scaling instead of zeroing Y.
ScaleY_SkipZero(Y, beta) ==
  IF beta = 0 THEN Y
  ELSE MakeMatrix(Y.rows, Y.cols,
                  [<<i, j>> \in Idx(Y.rows, Y.cols) |-> Mul(beta, Y.at[<<i, j>>])])

\* Mutant: a nonzero beta is added to the entries instead of multiplying them.
ScaleY_Shift(Y, beta) ==
  IF beta = 0 THEN Zeros(Y.rows, Y.cols)
  ELSE MakeMatrix(Y.rows, Y.cols,
                  [<<i, j>> \in Idx(Y.rows, Y.cols) |-> Add(beta, Y.at[<<i, j>>])])

\* if (beta == 0) Y.zeros(); else Y *= beta;
ScaleY(Y, beta) ==
  IF beta = 0 THEN Zeros(Y.rows, Y.cols)
  ELSE MakeMatrix(Y.rows, Y.cols,
                  [<<i, j>> \in Idx(Y.rows, Y.cols) |-> Mul(beta, Y.at[<<i, j>>])])

InputRange(node, trans) ==
  IF trans = "NOTRANS" THEN node.colRange ELSE node.rowRange

OutputRange(node, trans) ==
  IF trans = "NOTRANS" THEN node.rowRange ELSE node.colRange

\* Mutant: the block apply is called with beta = 0 and overwrites its slice.
LeafApply_Overwrite(bct, data, leafId, xData, yData, trans, alpha) ==
  LET node == bct.leafNodes[leafId]
      inputRange == InputRange(node, trans)
      outputRange == OutputRange(node, trans)
      nIn == inputRange[2] - inputRange[1]
      nOut == outputRange[2] - outputRange[1]
      xDataBlock == MapView(xData, inputRange[1], nIn)
      yDataBlock == MapView(yData, outputRange[1], nOut)
  IN  MapStore(yData, outputRange[1], nOut,
               HMatrixDataApply(data[leafId], xDataBlock, yDataBlock, trans, alpha, 0))

\* The body of the for_each lambda for one element of m_hMatrixData.  The
\* lambda calls its two captured matrices xData and yData: they are xPermuted
\* and yPermuted.
LeafApply(bct, data, leafId, xData, yData, trans, alpha) ==
  LET node == bct.leafNodes[leafId]
      inputRange == InputRange(node, trans)
      outputRange == OutputRange(node, trans)
      nIn == inputRange[2] - inputRange[1]
      nOut == outputRange[2] - outputRange[1]
      xDataBlock == MapView(xData, inputRange[1], nIn)
      yDataBlock == MapView(yData, outputRange[1], nOut)
  IN  MapStore(yData, outputRange[1], nOut,
               HMatrixDataApply(data[leafId], xDataBlock, yDataBlock, trans, alpha, 1))

RECURSIVE ForEachLeaf(_, _, _, _, _, _, _)
\* std::for_each over the elements of m_hMatrixData not yet visited.
ForEachLeaf(bct, data, todo, xData, yData, trans, alpha) ==
  IF todo = {} THEN yData
  ELSE LET leafId == CHOOSE l \in todo : \A m \in todo : l <= m
       IN  ForEachLeaf(bct, data, todo \ {leafId}, xData,
                       LeafApply(bct, data, leafId, xData, yData, trans, alpha),
                       trans, alpha)

\* Mutant: the shapes are checked before Y is scaled, so a call that throws
\* on its inputs leaves Y as it was.
apply_CheckFirst(bct, data, X, Y, trans, alpha, beta) ==
  LET xPermuted == permuteMatToHMatDofs(bct, X, IF trans = "NOTRANS" THEN "COL" ELSE "ROW")
      yPermuted == permuteMatToHMatDofs(bct, Y, IF trans = "NOTRANS" THEN "ROW" ELSE "COL")
  IN  IF xPermuted.err # "none" \/ yPermuted.err # "none"
      THEN [err |-> "shape", Y |-> Y, applied |-> 0]
      ELSE LET acc == ForEachLeaf(bct, data, DOMAIN data, xPermuted.m,
                                  ScaleY(yPermuted.m, beta), trans, alpha)
               back == permuteMatToOriginalDofs(bct, acc, "ROW")
           IN  IF back.err # "none"
               THEN [err |-> "shape", Y |-> ScaleY(Y, beta),
                     applied |-> Cardinality(DOMAIN data)]
               ELSE [err |-> "none", Y |-> back.m, applied |-> Cardinality(DOMAIN data)]

\* The result of apply: err, Y as the caller sees it afterwards, and the
\* number of block applies (line 155) the call made.
apply(bct, data, X, Y, trans, alpha, beta) ==
  LET scaled == ScaleY(Y, beta)
      xPermuted == permuteMatToHMatDofs(bct, X, IF trans = "NOTRANS" THEN "COL" ELSE "ROW")
      yPermuted == permuteMatToHMatDofs(bct, scaled, IF trans = "NOTRANS" THEN "ROW" ELSE "COL")
  IN  IF xPermuted.err # "none" \/ yPermuted.err # "none"
      THEN [err |-> "shape", Y |-> scaled, applied |-> 0]
      ELSE LET acc == ForEachLeaf(bct, data, DOMAIN data, xPermuted.m, yPermuted.m,
                                  trans, alpha)
               back == permuteMatToOriginalDofs(bct, acc, "ROW")
           IN  IF back.err # "none"
               THEN [err |-> "shape", Y |-> scaled, applied |-> Cardinality(DOMAIN data)]
               ELSE [err |-> "none", Y |-> back.m, applied |-> Cardinality(DOMAIN data)]

(***************************************************************************)
(* The caller's inputs.                                                    *)
(***************************************************************************)
Scalars == {0, 1, 2}

\* Column j is v times the unit vector e_((s + j) mod n).
ShiftedUnits(n, k, s, v) ==
  MakeMatrix(n, k, [<<i, j>> \in Idx(n, k) |-> IF i = (s + j) % n THEN v ELSE 0])

Identity(n) == ShiftedUnits(n, n, 0, 1)

\* All entries distinct and nonzero: v * (1 + i + n * j).
Coded(n, k, v) == MakeMatrix(n, k, [<<i, j>> \in Idx(n, k) |-> v * (1 + i + n * j)])

\* Non-finite everywhere.
Garbage(n, k) == MakeMatrix(n, k, [<<i, j>> \in Idx(n, k) |-> NaN])

\* Matrices with n rows.
Matrices(n) ==
  {ShiftedUnits(n, k, s, v) : k \in 1 .. MaxCols, s \in 0 .. n - 1, v \in 1 .. MaxVal}
    \cup {Coded(n, k, v) : k \in 1 .. MaxCols, v \in 1 .. MaxVal}
    \cup {Garbage(n, k) : k \in 1 .. MaxCols}
    \cup {Identity(n)}

\* Matrices whose row count is off by one.
Misshapen(n, k) == {Coded(n + 1, k, 1)} \cup (IF n > 1 THEN {Coded(n - 1, k, 1)} ELSE {})

\* X for apply: rows to match n, or off by one.
XInputs(n) == Matrices(n) \cup Misshapen(n, 1)

\* Y for apply with k columns: zeroed, filled, garbage, or off by one row.
YInputs(n, k) == {Zeros(n, k), Coded(n, k, 1), Garbage(n, k)} \cup Misshapen(n, k)

(***************************************************************************)
(* Construction.  HMatrix(tree) leaves the mapping empty;                  *)
(* HMatrix(tree, compressor) runs initialize, and yields a matrix only if  *)
(* initialize returns.                                                     *)
(***************************************************************************)
Init ==
  /\ space = NoSpace
  /\ tree \in Trees
  /\ \/ /\ hMatrixData = EmptyData
        /\ call = [op |-> "HMatrix", err |-> "none"]
     \/ \E c \in Compressors(tree) :
          LET r == initialize(tree, EmptyData, c)
          IN  /\ r.err = "none"
              /\ hMatrixData = r.data
              /\ call = [op |-> "HMatrix+initialize", err |-> "none", compressor |-> c]

(***************************************************************************)
(* The calls.                                                              *)
(***************************************************************************)
Initialize ==
  \E c \in Compressors(tree) :
    LET r == initialize(tree, hMatrixData, c)
    IN  /\ hMatrixData' = r.data
        /\ call' = [op |-> "initialize", err |-> r.err, compressor |-> c,
                    after |-> call.op, before |-> hMatrixData]
        /\ UNCHANGED <<tree, space>>

Reset ==
  /\ hMatrixData' = reset(hMatrixData)
  /\ call' = [op |-> "reset", err |-> "none", before |-> hMatrixData]
  /\ UNCHANGED <<tree, space>>

\* The record of the last call is dropped when the caller goes on.  Apply is
\* taken from a caller that holds no record: the calls of one caller are
\* sequential, and no call reads the record of the one before it.
Idle == call.op \in {"HMatrix", "HMatrix+initialize", "returned"}

Return ==
  /\ ~Idle
  /\ call' = [op |-> "returned", err |-> "none"]
  /\ UNCHANGED <<tree, hMatrixData, space>>

Apply ==
  /\ Idle
  /\ \E trans \in TransposeMode, alpha \in Scalars, beta \in Scalars :
    \E X \in XInputs(IF trans = "NOTRANS" THEN columns(tree) ELSE rows(tree)) :
      \E Y \in YInputs(IF trans = "NOTRANS" THEN rows(tree) ELSE columns(tree), X.cols) :
        LET r == apply(tree, hMatrixData, X, Y, trans, alpha, beta)
        IN  /\ call' = [op |-> "apply", err |-> r.err, X |-> X, Ybefore |-> Y,
                        Y |-> r.Y, trans |-> trans, alpha |-> alpha, beta |-> beta,
                        applied |-> r.applied, again |-> FALSE]
            /\ UNCHANGED <<tree, hMatrixData, space>>

\* The caller repeats an apply call that threw, with the same arguments: Y
\* is the matrix the first call left behind.
ApplyAgain ==
  /\ call.op = "apply" /\ call.err = "shape" /\ ~call.again
  /\ LET r == apply(tree, hMatrixData, call.X, call.Y, call.trans, call.alpha, call.beta)
     IN  call' = [call EXCEPT !.err = r.err, !.Ybefore = call.Y, !.Y = r.Y,
                              !.applied = r.applied, !.again = TRUE]
  /\ UNCHANGED <<tree, hMatrixData, space>>

PermuteToHMat ==
  \E sel \in RowColSelector :
    LET n == SelectedClusterTree(tree, sel).numberOfDofs
    IN  \E mat \in Matrices(n) \cup UNION {Misshapen(n, k) : k \in 1 .. MaxCols} :
          LET r == permuteMatToHMatDofs(tree, mat, sel)
          IN  /\ call' = [op |-> "permuteMatToHMatDofs", err |-> r.err, mat |-> mat,
                          rowOrColumn |-> sel, result |-> r.m]
              /\ UNCHANGED <<tree, hMatrixData, space>>

PermuteToOriginal ==
  \E sel \in RowColSelector :
    LET n == SelectedClusterTree(tree, sel).numberOfDofs
    IN  \E mat \in Matrices(n) \cup UNION {Misshapen(n, k) : k \in 1 .. MaxCols} :
          LET r == permuteMatToOriginalDofs(tree, mat, sel)
          IN  /\ call' = [op |-> "permuteMatToOriginalDofs", err |-> r.err, mat |-> mat,
                          rowOrColumn |-> sel, result |-> r.m]
              /\ UNCHANGED <<tree, hMatrixData, space>>

\* permuteMatToOriginalDofs on what permuteMatToHMatDofs has just returned.
PermuteBack ==
  /\ call.op = "permuteMatToHMatDofs"
  /\ call.err = "none"
  /\ \E sel \in RowColSelector :
       LET r == permuteMatToOriginalDofs(tree, call.result, sel)
       IN  /\ call' = [op |-> "roundTrip", err |-> r.err, mat |-> call.result,
                       rowOrColumn |-> sel, result |-> r.m,
                       M |-> call.mat, there |-> call.rowOrColumn]
           /\ UNCHANGED <<tree, hMatrixData, space>>

Next == Initialize \/ Reset \/ Apply \/ ApplyAgain \/ Return

Spec == Init /\ [][Next]_vars

NextPermute == PermuteToHMat \/ PermuteToOriginal \/ PermuteBack

SpecPermute == Init /\ [][NextPermute]_vars

(***************************************************************************)
(* What the claims speak of.                                               *)
(***************************************************************************)
\* Every leaf holds the dense block a never-failing compressor of A makes.
FullyDense(A) ==
  /\ DOMAIN hMatrixData = LeafIds(tree)
  /\ \A l \in LeafIds(tree) :
       hMatrixData[l] = compressBlock(tree, l, [A |-> A, failAt |-> 0])

\* The ordinary product M * X.
DenseProduct(M, X) ==
  MakeMatrix(M.rows, X.cols,
             [<<i, j>> \in Idx(M.rows, X.cols) |->
                SumTo([l \in 0 .. M.cols - 1 |-> Mul(M.at[<<i, l>>], X.at[<<l, j>>])],
                      M.cols)])

Transposed(M) == MakeMatrix(M.cols, M.rows, [<<i, j>> \in Idx(M.cols, M.rows) |-> M.at[<<j, i>>]])

\* beta * Y in the sense of the GEMM contract: beta = 0 gives zeros.
BetaTimes(beta, Y) ==
  MakeMatrix(Y.rows, Y.cols,
             [<<i, j>> \in Idx(Y.rows, Y.cols) |->
                IF beta = 0 THEN 0 ELSE Mul(beta, Y.at[<<i, j>>])])

\* The last call was apply(X, Y, trans, ...) with X and Y of the right shape.
WellShapedApply(trans) ==
  /\ call.op = "apply"
  /\ call.trans = trans
  /\ call.X.rows = (IF trans = "NOTRANS" THEN columns(tree) ELSE rows(tree))
  /\ call.Ybefore.rows = (IF trans = "NOTRANS" THEN rows(tree) ELSE columns(tree))

Finite(M) == \A p \in DOMAIN M.at : M.at[p] # NaN

\* C1: on an all-dense matrix of A, apply(X, Y, NOTRANS, 1, 0) returns with
\* Y = A * X in the caller's ordering, for every well-shaped finite X and
\* every well-shaped Y (for X = I(4) on the 2 x 2 partition, Y = A).
C1_ApplyIsDenseProduct ==
  (WellShapedApply("NOTRANS") /\ call.alpha = 1 /\ call.beta = 0 /\ Finite(call.X))
    => \A A \in Operators :
         FullyDense(A)
           => /\ call.err = "none"
              /\ call.Y = DenseProduct(DenseOperator(tree, A), call.X)

\* C2: on an all-dense matrix of A, apply(X, Y, TRANS, 1, 0) returns with
\* Y = transpose(A) * X in the caller's column-DOF ordering, for every
\* well-shaped finite X.
C2_TransposeConsistency ==
  (WellShapedApply("TRANS") /\ call.alpha = 1 /\ call.beta = 0 /\ Finite(call.X))
    => \A A \in Operators :
         FullyDense(A)
           => /\ call.err = "none"
              /\ call.Y = DenseProduct(Transposed(DenseOperator(tree, A)), call.X)

\* C3: apply with alpha = 0 leaves Y = beta * Y_before, in both transpose modes.
C3_AlphaZero ==
  \A trans \in TransposeMode :
    (WellShapedApply(trans) /\ call.alpha = 0)
      => call.Y = BetaTimes(call.beta, call.Ybefore)

\* C4: apply with beta = 0 ends the same (same Y, same outcome) whatever Y
\* held before: the run recorded in call agrees with the run of the same
\* call from every other starting Y of the same shape.
C4_BetaZeroIgnoresY ==
  (call.op = "apply" /\ call.beta = 0)
    => \A Y2 \in {Zeros(call.Ybefore.rows, call.Ybefore.cols),
                  Coded(call.Ybefore.rows, call.Ybefore.cols, 1),
                  Garbage(call.Ybefore.rows, call.Ybefore.cols)} :
         LET r == apply(tree, hMatrixData, call.X, Y2, call.trans, call.alpha, 0)
         IN  r.Y = call.Y /\ r.err = call.err

\* C4 witness: a garbage-filled Y went into a beta = 0 apply on a stored
\* matrix and a nonzero product came out.
C4_Witness ==
  /\ call.op = "apply" /\ call.beta = 0 /\ call.alpha = 2 /\ call.err = "none"
  /\ call.Ybefore = Garbage(call.Ybefore.rows, call.Ybefore.cols)
  /\ call.X = Coded(call.X.rows, 2, 1)
  /\ DOMAIN hMatrixData = LeafIds(tree)
  /\ \A p \in DOMAIN call.Y.at : call.Y.at[p] > 0

PermuteOps == {"permuteMatToHMatDofs", "permuteMatToOriginalDofs", "roundTrip"}

\* C5: permuteMatToOriginalDofs(permuteMatToHMatDofs(M, s), s) = M for ROW
\* and for COL; each call writes every output row exactly once, and row i of
\* M is row mapOriginalDofToHMatDof(i) of the intermediate matrix.
C5_RoundTrip ==
  (call.op = "roundTrip" /\ call.rowOrColumn = call.there)
    => LET ct == SelectedClusterTree(tree, call.there)
       IN  /\ call.err = "none"
           /\ call.result = call.M
           /\ \A r \in 0 .. call.M.rows - 1 :
                /\ RowWrites(call.M, ToHMat(ct, call.M), r) = 1
                /\ RowWrites(call.mat, ToOriginal(ct, call.mat), r) = 1
                /\ \A j \in 0 .. call.M.cols - 1 :
                     call.mat.at[<<mapOriginalDofToHMatDof(ct, r), j>>] = call.M.at[<<r, j>>]

\* C5 witness: a two-column matrix of distinct entries went through a
\* permutation that moved its rows, and came back.
C5_Witness ==
  /\ call.op = "roundTrip" /\ call.rowOrColumn = call.there
  /\ call.M = Coded(call.M.rows, 2, 1)
  /\ call.mat # call.M
  /\ call.result = call.M

\* C6: a permute call on a matrix whose row count differs from the DOF count
\* of the addressed cluster tree throws the shape error, returns nothing and
\* changes neither the block data mapping nor the tree.
C6_ShapeMismatch ==
  [][(call'.op \in PermuteOps
        /\ call'.mat.rows # SelectedClusterTree(tree, call'.rowOrColumn).numberOfDofs)
       => /\ call'.err = "shape"
          /\ call'.result = NoMatrix
          /\ hMatrixData' = hMatrixData
          /\ tree' = tree]_vars

\* C6 witness: permuteMatToHMatDofs threw on a matrix with a row too few.
C6_Witness ==
  /\ call.op = "permuteMatToHMatDofs"
  /\ call.mat.rows = SelectedClusterTree(tree, call.rowOrColumn).numberOfDofs - 1
  /\ call.err = "shape"

\* C7: isInitialized() is true iff every leaf has block data.
C7_IsInitializedIffAllLeaves ==
  isInitialized(hMatrixData) <=> (\A l \in LeafIds(tree) : l \in DOMAIN hMatrixData)

\* C8: after an initialize whose compressor failed, isInitialized() is false
\* and the mapping holds no block data.
C8_FailedInitializeLeavesNothing ==
  (call.op = "initialize" /\ call.err = "compress")
    => /\ ~isInitialized(hMatrixData)
       /\ hMatrixData = EmptyData

\* C9: HMatrix(tree) has no block data; after every initialize that returned
\* the keys of the mapping are exactly the leaves and each leaf holds the
\* block data this compressor makes for it.
C9_InitializePopulatesLeaves ==
  /\ call.op = "HMatrix" => hMatrixData = EmptyData
  /\ (call.op \in {"initialize", "HMatrix+initialize"} /\ call.err = "none")
       => /\ DOMAIN hMatrixData = LeafIds(tree)
          /\ \A l \in LeafIds(tree) :
               hMatrixData[l] = compressBlock(tree, l, call.compressor)

\* C9 witness: initialize returned on a matrix that held, for every leaf, the
\* block data of another compressor.
C9_Witness ==
  /\ call.op = "initialize" /\ call.err = "none"
  /\ DOMAIN call.before = LeafIds(tree)
  /\ \A l \in LeafIds(tree) : call.before[l].src # call.compressor.A

\* C10: reset empties the mapping (isInitialized() false) and leaves the
\* tree, rows() and columns() as they were; a second reset changes nothing;
\* an initialize that returns after a reset makes the matrix initialized.
C10_Reset ==
  [][/\ call'.op = "reset"
          => /\ hMatrixData' = EmptyData
             /\ ~isInitialized(hMatrixData')
             /\ tree' = tree
             /\ rows(tree') = rows(tree) /\ columns(tree') = columns(tree)
             /\ reset(hMatrixData') = hMatrixData'
     /\ (call.op = "reset" /\ call'.op = "reset") => hMatrixData' = hMatrixData
     /\ (call.op = "reset" /\ call'.op = "initialize" /\ call'.err = "none")
          => isInitialized(hMatrixData')]_vars

\* C10 witness: reset discarded the block data of every leaf.
C10_Witness ==
  /\ call.op = "reset"
  /\ DOMAIN call.before = LeafIds(tree)
  /\ hMatrixData = EmptyData

(***************************************************************************)
(* Step 3 of apply, leaf by leaf.  The source visits the elements of       *)
(* m_hMatrixData one after another with std::for_each, in the order of the *)
(* map, which is the order of the node pointers and not of the leaves'     *)
(* index ranges ("for_each").  Run for several leaves at once without      *)
(* synchronization on yPermuted ("parallel"), a leaf's block apply reads   *)
(* its view of yPermuted, and writes the sum back later, with the other    *)
(* leaves' reads and writes in between.                                    *)
(***************************************************************************)
\* What the leaf's block apply computes from the views it reads.
LeafBlock(bct, data, leafId, xData, yData, trans, alpha) ==
  LET node == bct.leafNodes[leafId]
      inputRange == InputRange(node, trans)
      outputRange == OutputRange(node, trans)
  IN  HMatrixDataApply(data[leafId],
                       MapView(xData, inputRange[1], inputRange[2] - inputRange[1]),
                       MapView(yData, outputRange[1], outputRange[2] - outputRange[1]),
                       trans, alpha, 1)

\* yData after the leaf's block apply has written blk through its view.
LeafStore(bct, leafId, yData, trans, blk) ==
  LET outputRange == OutputRange(bct.leafNodes[leafId], trans)
  IN  MapStore(yData, outputRange[1], outputRange[2] - outputRange[1], blk)

\* Rows of yPermuted in the leaf's output index range.
OutputRows(bct, leafId, trans) ==
  LET outputRange == OutputRange(bct.leafNodes[leafId], trans)
  IN  outputRange[1] .. outputRange[2] - 1

\* X and the scaled Y as step 3 finds them.
LeafInputsX(n) ==
  {Coded(n, k, 1) : k \in 1 .. MaxCols}
    \cup {ShiftedUnits(n, k, 0, v) : k \in 1 .. MaxCols, v \in 1 .. MaxVal}

LeafInputsY(n, k) == {Zeros(n, k), Coded(n, k, 1)}

StartLeaves ==
  /\ Idle
  /\ \E trans \in TransposeMode, alpha \in Scalars \ {0}, sync \in {"for_each", "parallel"} :
       \E X \in LeafInputsX(IF trans = "NOTRANS" THEN columns(tree) ELSE rows(tree)) :
         \E Y \in LeafInputsY(IF trans = "NOTRANS" THEN rows(tree) ELSE columns(tree), X.cols) :
           LET xP == permuteMatToHMatDofs(tree, X, IF trans = "NOTRANS" THEN "COL" ELSE "ROW").m
               yP == permuteMatToHMatDofs(tree, Y, IF trans = "NOTRANS" THEN "ROW" ELSE "COL").m
           IN  call' = [op |-> "leaves", sync |-> sync, trans |-> trans, alpha |-> alpha,
                        xPermuted |-> xP, yPermuted |-> yP,
                        todo |-> DOMAIN hMatrixData, reading |-> << >>, order |-> << >>,
                        sequential |-> ForEachLeaf(tree, hMatrixData, DOMAIN hMatrixData,
                                                   xP, yP, trans, alpha)]
  /\ UNCHANGED <<tree, hMatrixData, space>>

\* for_each: the next element of the map, whichever leaf that is.
LeafRun ==
  /\ call.op = "leaves" /\ call.sync = "for_each"
  /\ \E l \in call.todo :
       call' = [call EXCEPT
                  !.yPermuted = LeafApply(tree, hMatrixData, l, call.xPermuted,
                                          call.yPermuted, call.trans, call.alpha),
                  !.todo = call.todo \ {l},
                  !.order = Append(call.order, l)]
  /\ UNCHANGED <<tree, hMatrixData, space>>

\* parallel: a leaf's block apply reads its views.
LeafRead ==
  /\ call.op = "leaves" /\ call.sync = "parallel"
  /\ \E l \in call.todo :
       call' = [call EXCEPT
                  !.reading = Store(call.reading, l,
                                    LeafBlock(tree, hMatrixData, l, call.xPermuted,
                                              call.yPermuted, call.trans, call.alpha)),
                  !.todo = call.todo \ {l}]
  /\ UNCHANGED <<tree, hMatrixData, space>>

\* parallel: a leaf's block apply writes what it computed.
LeafWrite ==
  /\ call.op = "leaves" /\ call.sync = "parallel"
  /\ \E l \in DOMAIN call.reading :
       call' = [call EXCEPT
                  !.yPermuted = LeafStore(tree, l, call.yPermuted, call.trans,
                                          call.reading[l]),
                  !.reading = [k \in DOMAIN call.reading \ {l} |-> call.reading[k]]]
  /\ UNCHANGED <<tree, hMatrixData, space>>

NextLeaves == StartLeaves \/ LeafRun \/ LeafRead \/ LeafWrite

SpecLeaves == Init /\ [][NextLeaves]_vars

LeavesFinished ==
  call.op = "leaves" /\ call.todo = {} /\ DOMAIN call.reading = {}

\* C11 as claimed: for a fixed transpose mode the leaves, run in parallel in
\* any interleaving without synchronization on Y, end with the Y of the
\* sequential loop (their output index ranges being taken as disjoint).
C11_ParallelLeaves ==
  (LeavesFinished /\ call.sync = "parallel") => call.yPermuted = call.sequential

\* C11 amended: the per-leaf accumulations, each run as a whole and one at a
\* time, end with the same Y in every order of the leaves.
C11_AnyOrder ==
  (LeavesFinished /\ call.sync = "for_each") => call.yPermuted = call.sequential

\* C11 witness: four leaves were run last leaf first and changed Y.
C11_Witness ==
  /\ LeavesFinished /\ call.sync = "for_each"
  /\ Len(call.order) = 4 /\ call.order[1] = 4 /\ call.order[2] = 2
  /\ call.yPermuted = call.sequential
  /\ \A p \in DOMAIN call.yPermuted.at : call.yPermuted.at[p] > 0

(***************************************************************************)
(* Two apply calls at once on one matrix, each with its own X and Y.       *)
(* xPermuted and yPermuted are automatic variables of apply, so every call *)
(* has a pair of its own: buffer pair c belongs to call c.  A call goes    *)
(* through "prepare" (scale Y, permute X and Y into its buffers), "leaves" *)
(* (the for_each over m_hMatrixData) and "back" (permute the accumulator   *)
(* back into Y); the steps of the two calls interleave freely.             *)
(***************************************************************************)
Callers == {1, 2}

\* Mutant: one static pair of buffers serves every call.
PermutationBuffers_Static(caller) == 1

\* The buffer pair the call of this caller works in.
PermutationBuffers(caller) == caller

NoBuffers == [xPermuted |-> NoMatrix, yPermuted |-> NoMatrix]

ConcurrentInputs(bct) ==
  UNION {
    LET nx == IF trans = "NOTRANS" THEN columns(bct) ELSE rows(bct)
        ny == IF trans = "NOTRANS" THEN rows(bct) ELSE columns(bct)
    IN  {[pc |-> "prepare", err |-> "none", trans |-> trans, alpha |-> ab[1],
          beta |-> ab[2], X |-> Coded(nx, k, 1), Ybefore |-> Coded(ny, k, 1),
          Y |-> Coded(ny, k, 1)] : k \in 1 .. MaxCols, ab \in {<<1, 0>>, <<2, 1>>}}
    : trans \in TransposeMode}

StartConcurrent ==
  /\ Idle
  /\ \E c1 \in ConcurrentInputs(tree), c2 \in ConcurrentInputs(tree) :
       call' = [op |-> "concurrent",
                callers |-> [c \in Callers |-> IF c = 1 THEN c1 ELSE c2],
                bufs |-> [b \in Callers |-> NoBuffers],
                log |-> << >>,
                dataAtStart |-> hMatrixData, treeAtStart |-> tree]
  /\ UNCHANGED <<tree, hMatrixData, space>>

\* Lines 116-131 of apply for caller c.
Prepare ==
  /\ call.op = "concurrent"
  /\ \E c \in Callers :
       LET me == call.callers[c]
           scaled == ScaleY(me.Y, me.beta)
           xP == permuteMatToHMatDofs(tree, me.X,
                                      IF me.trans = "NOTRANS" THEN "COL" ELSE "ROW")
           yP == permuteMatToHMatDofs(tree, scaled,
                                      IF me.trans = "NOTRANS" THEN "ROW" ELSE "COL")
           failed == xP.err # "none" \/ yP.err # "none"
       IN  /\ me.pc = "prepare"
           /\ call' = [call EXCEPT
                         !.callers[c].Y = scaled,
                         !.callers[c].err = IF failed THEN "shape" ELSE "none",
                         !.callers[c].pc = IF failed THEN "done" ELSE "leaves",
                         !.bufs[PermutationBuffers(c)] =
                            IF failed THEN @ ELSE [xPermuted |-> xP.m, yPermuted |-> yP.m],
                         !.log = Append(@, c)]
  /\ UNCHANGED <<tree, hMatrixData, space>>

\* Lines 133-156 of apply for caller c.
ForEach ==
  /\ call.op = "concurrent"
  /\ \E c \in Callers :
       LET me == call.callers[c]
           buf == call.bufs[PermutationBuffers(c)]
       IN  /\ me.pc = "leaves"
           /\ call' = [call EXCEPT
                         !.callers[c].pc = "back",
                         !.bufs[PermutationBuffers(c)].yPermuted =
                            ForEachLeaf(tree, hMatrixData, DOMAIN hMatrixData,
                                        buf.xPermuted, buf.yPermuted, me.trans, me.alpha),
                         !.log = Append(@, c)]
  /\ UNCHANGED <<tree, hMatrixData, space>>

\* Line 158 of apply for caller c.
Back ==
  /\ call.op = "concurrent"
  /\ \E c \in Callers :
       LET me == call.callers[c]
           back == permuteMatToOriginalDofs(tree, call.bufs[PermutationBuffers(c)].yPermuted,
                                            "ROW")
       IN  /\ me.pc = "back"
           /\ call' = [call EXCEPT
                         !.callers[c].pc = "done",
                         !.callers[c].err = back.err,
                         !.callers[c].Y = IF back.err = "none" THEN back.m ELSE @,
                         !.log = Append(@, c)]
  /\ UNCHANGED <<tree, hMatrixData, space>>

NextConcurrent == StartConcurrent \/ Prepare \/ ForEach \/ Back

SpecConcurrent == Init /\ [][NextConcurrent]_vars

\* C12: with two apply calls interleaved on an initialized matrix, a call
\* that has prepared finds its own permuted X in its buffers, the mapping
\* and the tree stay what they were, X stays as passed, and a call that has
\* ended has the Y and the outcome of the same call run alone.
C12_ConcurrentApply ==
  (call.op = "concurrent" /\ DOMAIN hMatrixData = LeafIds(tree))
    => /\ hMatrixData = call.dataAtStart
       /\ tree = call.treeAtStart
       /\ \A c \in Callers :
            LET me == call.callers[c]
                alone == apply(tree, hMatrixData, me.X, me.Ybefore, me.trans,
                               me.alpha, me.beta)
            IN  /\ me.X = Coded(me.X.rows, me.X.cols, 1)
                /\ me.pc \in {"leaves", "back"}
                     => call.bufs[PermutationBuffers(c)].xPermuted
                          = permuteMatToHMatDofs(tree, me.X,
                              IF me.trans = "NOTRANS" THEN "COL" ELSE "ROW").m
                /\ me.pc = "done" => (me.Y = alone.Y /\ me.err = alone.err)

\* C12 witness: a NOTRANS and a TRANS call took their steps in turn on an
\* initialized matrix and both returned.
C12_Witness ==
  /\ call.op = "concurrent" /\ DOMAIN hMatrixData = LeafIds(tree)
  /\ call.log = <<1, 2, 1, 2, 1, 2>>
  /\ call.callers[1].trans = "NOTRANS" /\ call.callers[2].trans = "TRANS"
  /\ \A c \in Callers : call.callers[c].pc = "done" /\ call.callers[c].err = "none"
  /\ call.callers[1].Y # call.callers[2].Y

\* C13: apply on a matrix that holds no block data raises no error and ends
\* with Y = beta * Y_before, for every well-shaped X, every alpha and beta,
\* and both transpose modes.
C13_ApplyWithoutBlockData ==
  \A trans \in TransposeMode :
    (WellShapedApply(trans) /\ hMatrixData = EmptyData)
      => /\ call.err = "none"
         /\ call.Y = BetaTimes(call.beta, call.Ybefore)

\* The recorded apply call had an X or a Y whose row count differs from the
\* DOF count of the cluster tree it addresses.
MisshapenApply(c, bct) ==
  /\ c.op = "apply"
  /\ \/ c.X.rows # (IF c.trans = "NOTRANS" THEN columns(bct) ELSE rows(bct))
     \/ c.Ybefore.rows # (IF c.trans = "NOTRANS" THEN rows(bct) ELSE columns(bct))

\* C14: an apply call with X or Y of the wrong row count throws the shape
\* error without a single block apply; Y is left scaled by beta (zero when
\* beta = 0), and the block data mapping and the tree are as before.
C14_ShapeMismatchedApply ==
  [][MisshapenApply(call', tree)
       => /\ call'.err = "shape"
          /\ call'.applied = 0
          /\ call'.Y = BetaTimes(call'.beta, call'.Ybefore)
          /\ hMatrixData' = hMatrixData
          /\ tree' = tree]_vars

\* C14 witness: apply threw on an X with a row too many, on an initialized
\* matrix, and left Y doubled.
C14_Witness ==
  /\ MisshapenApply(call, tree) /\ ~call.again
  /\ call.X.rows = (IF call.trans = "NOTRANS" THEN columns(tree) ELSE rows(tree)) + 1
  /\ DOMAIN hMatrixData = LeafIds(tree)
  /\ call.beta = 2 /\ call.alpha # 0
  /\ call.Ybefore = Coded(call.Ybefore.rows, call.Ybefore.cols, 1)
  /\ call.err = "shape" /\ call.Y = Coded(call.Ybefore.rows, call.Ybefore.cols, 2)

\* C15 as claimed: the same shape-mismatched apply call made a second time
\* leaves Y as the first call left it, for every beta and every Y.
C15_ScalingIdempotent ==
  (MisshapenApply(call, tree) /\ call.again) => call.Y = call.Ybefore

AllZero(M) == \A p \in DOMAIN M.at : M.at[p] = 0

\* C15 amended: the second call scales Y by beta once more; Y is as the
\* first call left it when beta is 0 or 1, or when that Y is all zero.
C15_RepeatScalesAgain ==
  (MisshapenApply(call, tree) /\ call.again)
    => /\ call.err = "shape"
       /\ call.Y = BetaTimes(call.beta, call.Ybefore)
       /\ (call.beta \in {0, 1} \/ AllZero(call.Ybefore)) => call.Y = call.Ybefore

\* C15 witness: the repeated call with beta = 1 threw again and left the
\* nonzero Y of the first call as it was.
C15_Witness ==
  /\ MisshapenApply(call, tree) /\ call.again
  /\ call.beta = 1 /\ call.err = "shape"
  /\ ~AllZero(call.Ybefore) /\ Finite(call.Ybefore)
  /\ call.Y = call.Ybefore

(***************************************************************************)
(* PiecewiseConstantScalarSpace::assignDofsImpl                            *)
(*                                                                         *)
(* The leaf view is its element count and the order in which its entity    *)
(* iterator visits the element indices 0 .. elementCount - 1.  A segment   *)
(* is the set of element indices it contains.  m_local2globalDofs is a     *)
(* vector indexed by element index; m_global2localDofs is a vector whose   *)
(* element g is kept at position g + 1 of a sequence.                      *)
(***************************************************************************)
MaxElements == 3

LocalDof(entityIndex, dofIndex) == [entityIndex |-> entityIndex, dofIndex |-> dofIndex]

\* segment.contains(0, index)
contains(segment, index) == index \in segment

\* GridSegment::wholeGrid
wholeGrid(elementCount) == 0 .. elementCount - 1

\* Mutant: the vector keeps its elements.
clear_Keep(vec) == vec

\* std::vector::clear
clear(vec) == << >>

\* std::vector::resize on a vector indexed from 0: new elements are empty.
resize(vec, n) == [i \in 0 .. n - 1 |-> IF i \in DOMAIN vec THEN vec[i] ELSE << >>]

RECURSIVE AssignLoop(_, _, _, _, _, _)
\* The while loop of assignDofsImpl from iterator position it on.
AssignLoop(view, it, segment, local2global, global2local, globalDofCount_) ==
  IF it > Len(view.order) THEN [local2global |-> local2global, global2local |-> global2local]
  ELSE LET index == view.order[it]
       IN  IF contains(segment, index)
           THEN AssignLoop(view, it + 1, segment,
                           [local2global EXCEPT ![index] = <<globalDofCount_>>],
                           Append(global2local, <<LocalDof(index, 0)>>),
                           globalDofCount_ + 1)
           ELSE AssignLoop(view, it + 1, segment,
                           [local2global EXCEPT ![index] = <<-1>>],
                           global2local, globalDofCount_)

\* The two DOF maps after assignDofsImpl(segment) on the space sp.
assignDofsImpl(sp, segment) ==
  AssignLoop(sp.view, 1, segment,
             resize(clear(sp.local2global), sp.view.elementCount),
             clear(sp.global2local), 0)

globalDofCount(sp) == Len(sp.global2local)

\* getGlobalDofs of the element with this index.
getGlobalDofs(sp, index) == sp.local2global[index]

global2localDofs(sp, globalDofs) ==
  [i \in 1 .. Len(globalDofs) |-> sp.global2local[globalDofs[i] + 1]]

\* Leaf views of up to MaxElements elements, in every iteration order.
Views ==
  UNION {{[elementCount |-> n, order |-> o] :
            o \in {f \in [1 .. n -> 0 .. n - 1] : \A i, j \in 1 .. n : f[i] = f[j] => i = j}}
         : n \in 0 .. MaxElements}

\* Segments over a view of n elements; index n is an element of another view.
Segments(n) == SUBSET (0 .. n)

NoRun == [ran |-> FALSE]

\* The space as the constructor body finds it: members default-constructed.
Fresh(view) ==
  [constructed |-> TRUE, view |-> view, local2global |-> << >>, global2local |-> << >>,
   segment |-> {}, previous |-> NoRun]

\* What a run of assignDofsImpl left, as the next run finds it.
LastRun(sp) ==
  [ran |-> TRUE, segment |-> sp.segment, local2global |-> sp.local2global,
   global2local |-> sp.global2local]

\* The space after assignDofsImpl(segment), with the argument of the run
\* and what the run before it left.
Assigned(sp, segment, previous) ==
  LET maps == assignDofsImpl(sp, segment)
  IN  [sp EXCEPT !.local2global = maps.local2global,
                 !.global2local = maps.global2local,
                 !.segment = segment,
                 !.previous = previous]

\* PiecewiseConstantScalarSpace(grid) and PiecewiseConstantScalarSpace(grid, segment).
InitSpace ==
  /\ tree = TreeRoot
  /\ hMatrixData = EmptyData
  /\ call = [op |-> "HMatrix", err |-> "none"]
  /\ \E view \in Views :
       \/ space = Assigned(Fresh(view), wholeGrid(view.elementCount), NoRun)
       \/ \E segment \in Segments(view.elementCount) :
            space = Assigned(Fresh(view), segment, NoRun)

\* assignDofsImpl run again on the constructed space.
AssignDofs ==
  /\ space.constructed
  /\ \E segment \in Segments(space.view.elementCount) :
       space' = Assigned(space, segment, LastRun(space))
  /\ UNCHANGED <<tree, hMatrixData, call>>

NextSpace == AssignDofs

SpecSpace == InitSpace /\ [][NextSpace]_vars

\* The elements of the view the segment of the last run contains.
InSegment == {e \in 0 .. space.view.elementCount - 1 : contains(space.segment, e)}

\* C16: after assignDofsImpl(segment), globalDofCount() is the number of
\* elements in the segment; the elements of the segment carry the global
\* DOFs 0 .. globalDofCount() - 1, each once, growing in iteration order;
\* every other element carries -1; global DOF of element e maps back to the
\* single local DOF (e, 0); and a run with the segment of the run before
\* leaves the maps of the run before.
C16_DofMapsConsistent ==
  space.constructed
    => /\ globalDofCount(space) = Cardinality(InSegment)
       /\ DOMAIN space.local2global = 0 .. space.view.elementCount - 1
       /\ {getGlobalDofs(space, e) : e \in InSegment}
            = {<<g>> : g \in 0 .. globalDofCount(space) - 1}
       /\ \A i, j \in 1 .. Len(space.view.order) :
            (i < j /\ space.view.order[i] \in InSegment /\ space.view.order[j] \in InSegment)
              => getGlobalDofs(space, space.view.order[i])[1]
                   < getGlobalDofs(space, space.view.order[j])[1]
       /\ \A e \in (0 .. space.view.elementCount - 1) \ InSegment :
            getGlobalDofs(space, e) = <<-1>>
       /\ \A e \in InSegment :
            global2localDofs(space, getGlobalDofs(space, e)) = << <<LocalDof(e, 0)>> >>
       /\ (space.previous.ran /\ space.previous.segment = space.segment)
            => /\ space.local2global = space.previous.local2global
               /\ space.global2local = space.previous.global2local

\* C16 witness: three elements visited in the order 2, 0, 1; the run was
\* repeated with the segment {0, 2}, giving element 2 the global DOF 0,
\* element 0 the global DOF 1 and element 1 none.
C16_Witness ==
  /\ space.constructed
  /\ space.view = [elementCount |-> 3, order |-> <<2, 0, 1>>]
  /\ space.segment = {0, 2}
  /\ space.previous.ran /\ space.previous.segment = {0, 2}
  /\ globalDofCount(space) = 2
  /\ getGlobalDofs(space, 2) = <<0>>
  /\ getGlobalDofs(space, 0) = <<1>>
  /\ getGlobalDofs(space, 1) = <<-1>>
  /\ space.global2local = << <<LocalDof(2, 0)>>, <<LocalDof(0, 0)>> >>

====
